---- MODULE Spec2Model ----
(***************************************************************************)
(* Service worker of the Devsaint portfolio (src/sw.js): the versioned     *)
(* cache bucket, the install / activate lifecycle and the three request    *)
(* resolution strategies.  Two worker versions run the same code with a    *)
(* different CACHE_VERSION: "v1" is active when the model starts, "v2" is  *)
(* the version of src/sw.js, which installs and activates over it.         *)
(*                                                                         *)
(* Every await of the source is a suspension point, so every await is the  *)
(* boundary between two actions.  A fetch that never resolves is a handler *)
(* that never takes its next step.                                         *)
(*                                                                         *)
(* Spec is the worker under page traffic; SpecControl is the worker on its *)
(* message channel; SpecClassify and SpecRoundTrip widen the inputs of the *)
(* classification and of image requests.                                   *)
(***************************************************************************)
EXTENDS Naturals, Sequences, FiniteSets, TLC

VARIABLES
    cacheList,    \* CacheStorage: sequence of [name, id] in creation order
    cacheObjs,    \* Cache objects by id: path -> response (kept when orphaned)
    events,       \* fetch events dispatched so far, one record each
    puts,         \* cache.put calls started and not yet completed
    pcInstall,    \* position of v2's install handler chain
    installHandle,\* id of the Cache object the install chain holds
    installSignal,\* how the promise given to install's waitUntil settled
    precache,     \* outcome of cache.addAll: "none" | "ok" | "failed"
    skipWaiting,  \* self.skipWaiting() has been called by v2
    pcActivate,   \* position of v2's activate handler chain
    toDelete,     \* caches.delete calls started and not yet completed
    claimed,      \* self.clients.claim() has been called by v2
    messages      \* message events handled so far, one record each

vars == <<cacheList, cacheObjs, events, puts, pcInstall, installHandle,
          installSignal, precache, skipWaiting, pcActivate, toDelete, claimed,
          messages>>

lifecycleVars == <<pcInstall, installHandle, installSignal, precache,
                   skipWaiting, pcActivate, toDelete, claimed>>

(***************************************************************************)
(* Bounds                                                                  *)
(***************************************************************************)
\* fetch events dispatched in one behaviour
MaxEvents == 2

\* message events dispatched in one behaviour
MaxMessages == 2

(***************************************************************************)
(* Constants of the source                                                 *)
(***************************************************************************)
CACHE_VERSION == "v2"

OLD_VERSION == "v1"

AppPrefix == "devsaint-portfolio-"

CacheNameOf(v) == AppPrefix \o v

CACHE_NAME == CacheNameOf(CACHE_VERSION)

PRECACHE_ASSETS ==
    << "/", "/index.html", "/about.html", "/skills.html", "/projects.html",
       "/contact.html", "/styles.css", "/script.js", "/manifest.json" >>

SelfOrigin == "https://devsaint.example"

(***************************************************************************)
(* Strings                                                                 *)
(***************************************************************************)
EndsWith(s, suf) ==
    /\ Len(s) >= Len(suf)
    /\ SubSeq(s, Len(s) - Len(suf) + 1, Len(s)) = suf

StartsWith(s, pre) ==
    /\ Len(s) >= Len(pre)
    /\ SubSeq(s, 1, Len(pre)) = pre

\* the lower-case letter of each upper-case ASCII letter
LowerMap ==
    [A |-> "a", B |-> "b", C |-> "c", D |-> "d", E |-> "e", F |-> "f",
     G |-> "g", H |-> "h", I |-> "i", J |-> "j", K |-> "k", L |-> "l",
     M |-> "m", N |-> "n", O |-> "o", P |-> "p", Q |-> "q", R |-> "r",
     S |-> "s", T |-> "t", U |-> "u", V |-> "v", W |-> "w", X |-> "x",
     Y |-> "y", Z |-> "z"]

LowerChar(c) == IF c \in DOMAIN LowerMap THEN LowerMap[c] ELSE c

RECURSIVE ToLower(_)
ToLower(s) ==
    IF Len(s) = 0 THEN s
    ELSE LowerChar(SubSeq(s, 1, 1)) \o ToLower(SubSeq(s, 2, Len(s)))

(***************************************************************************)
(* getCachingStrategy (sw.js 119-142)                                      *)
(***************************************************************************)
ImageExts == {"png", "jpg", "jpeg", "gif", "webp", "svg", "ico"}

FontExts == {"woff", "woff2", "ttf", "otf", "eot"}

\* /\.(a|b|...)$/i.test(pathname): some "." of the path is followed, up to the
\* end of the path, by one of the alternatives, letters compared without case
RegexExtTest(pathname, alts) ==
    \E i \in 1..Len(pathname) :
        /\ SubSeq(pathname, i, i) = "."
        /\ ToLower(SubSeq(pathname, i + 1, Len(pathname))) \in alts

\* a classification whose image and font patterns lack the i flag
getCachingStrategyCaseSensitive(pathname) ==
    IF EndsWith(pathname, ".html") \/ pathname = "/" THEN "network-first"
    ELSE IF EndsWith(pathname, ".css") \/ EndsWith(pathname, ".js")
         THEN "stale-while-revalidate"
    ELSE IF \E e \in ImageExts \cup FontExts : EndsWith(pathname, "." \o e)
         THEN "cache-first"
    ELSE "network-first"

getCachingStrategy(pathname) ==
    IF EndsWith(pathname, ".html") \/ pathname = "/" THEN "network-first"
    ELSE IF EndsWith(pathname, ".css") \/ EndsWith(pathname, ".js")
         THEN "stale-while-revalidate"
    ELSE IF RegexExtTest(pathname, ImageExts) THEN "cache-first"
    ELSE IF RegexExtTest(pathname, FontExts) THEN "cache-first"
    ELSE "network-first"

(***************************************************************************)
(* Values: responses, the undefined value, network outcomes                *)
(***************************************************************************)
Response(st, b) == [kind |-> "Response", status |-> st, body |-> b]

\* new Response('Offline', { status: 503 })
Offline == Response(503, "Offline")

Undefined == [kind |-> "undefined", status |-> 0, body |-> ""]

\* a promise not settled yet
Pending == [kind |-> "pending", status |-> 0, body |-> ""]

\* no fetch started
NoFetch == [kind |-> "nofetch", status |-> 0, body |-> ""]

\* fetch() rejected: the network is unreachable
NetworkError == [kind |-> "error", status |-> 0, body |-> ""]

IsResponse(x) == x.kind = "Response"

\* Response.ok
Ok(r) == IsResponse(r) /\ r.status >= 200 /\ r.status <= 299

\* x || y of JavaScript, for x a response or undefined
OrElse(x, y) == IF x = Undefined THEN y ELSE x

\* what the network can answer a fetch with: an ok response, an HTTP error
\* status, or a rejection
NetBodies == {"fresh"}

NetOutcomes ==
    {Response(200, b) : b \in NetBodies} \cup {Response(404, "Not Found"), NetworkError}

(***************************************************************************)
(* CacheStorage and Cache (the platform's caches object)                   *)
(***************************************************************************)
NoEntries == [k \in {} |-> Undefined]

Names(list) == {list[i].name : i \in 1..Len(list)}

\* caches.keys(): the bucket names in creation order
Keys(list) == [i \in 1..Len(list) |-> list[i].name]

IdOf(list, name) == list[CHOOSE i \in 1..Len(list) : list[i].name = name].id

\* caches.open(name): the bucket's Cache object, created empty when absent
OpenList(list, objs, name) ==
    IF name \in Names(list) THEN list
    ELSE Append(list, [name |-> name, id |-> Len(objs) + 1])

OpenObjs(list, objs, name) ==
    IF name \in Names(list) THEN objs ELSE Append(objs, NoEntries)

OpenId(list, objs, name) ==
    IF name \in Names(list) THEN IdOf(list, name) ELSE Len(objs) + 1

\* caches.delete(name): the name is unbound; the Cache object lives on for
\* whoever still holds it
DeleteList(list, name) == SelectSeq(list, LAMBDA c : c.name # name)

\* cache.match(request) on one Cache object
CacheMatch(objs, id, path) ==
    IF path \in DOMAIN objs[id] THEN objs[id][path] ELSE Undefined

\* caches.match(request): the first bucket, in creation order, that holds it
StorageMatch(list, objs, path) ==
    IF \E i \in 1..Len(list) : path \in DOMAIN objs[list[i].id]
    THEN LET i == CHOOSE j \in 1..Len(list) :
                     /\ path \in DOMAIN objs[list[j].id]
                     /\ \A k \in 1..(j - 1) : path \notin DOMAIN objs[list[k].id]
         IN objs[list[i].id][path]
    ELSE Undefined

\* cache.put(request, response) completing on one Cache object
PutEntry(entries, path, resp) ==
    [k \in DOMAIN entries \cup {path} |-> IF k = path THEN resp ELSE entries[k]]

PutObjs(objs, id, path, resp) ==
    [objs EXCEPT ![id] = PutEntry(objs[id], path, resp)]

\* the entries of the bucket bound to a name (none when the bucket is absent)
Bucket(name) ==
    IF name \in Names(cacheList) THEN cacheObjs[IdOf(cacheList, name)] ELSE NoEntries


(***************************************************************************)
(* Requests and fetch events                                               *)
(***************************************************************************)
Request(o, m, p, md) == [origin |-> o, method |-> m, path |-> p, mode |-> md]

\* request.mode is read by networkFirst alone, so the pages navigate to the
\* HTML page and load the stylesheet and the image as subresources
Requests ==
    {Request(SelfOrigin, "GET", "/about.html", "navigate"),
     Request(SelfOrigin, "GET", "/about.html", "no-cors"),
     Request(SelfOrigin, "GET", "/styles.css", "no-cors"),
     Request(SelfOrigin, "GET", "/logo.png", "no-cors"),
     Request("https://cdn.example", "GET", "/logo.png", "no-cors"),
     Request(SelfOrigin, "POST", "/about.html", "navigate")}

\* a listener that forgets the method guard
InterceptsAnyMethod(req) == req.origin = SelfOrigin

\* the two guards of the fetch listener (sw.js 95-102)
Intercepts(req) == req.origin = SelfOrigin /\ req.method = "GET"

\* handleRequest (sw.js 147-158): the strategy function called, which runs up
\* to its first await
FirstPc(strategy) ==
    CASE strategy = "cache-first"            -> "cf_match"
      [] strategy = "network-first"          -> "nf_fetch"
      [] strategy = "stale-while-revalidate" -> "swr_open"
      [] OTHER                               -> "nf_fetch"

\* respondWith's promise has settled
Answered(e) == e.result # Pending

\* the record of a dispatched fetch event
NewEvent(v, req) ==
    IF Intercepts(req)
    THEN LET strategy == getCachingStrategy(req.path)
         IN [req |-> req, ver |-> v, strategy |-> strategy, pc |-> FirstPc(strategy),
             handle |-> 0, cached |-> Undefined,
             net |-> IF FirstPc(strategy) = "nf_fetch" THEN Pending ELSE NoFetch,
             result |-> Pending]
    ELSE [req |-> req, ver |-> v, strategy |-> "none", pc |-> "passthrough",
          handle |-> 0, cached |-> Undefined, net |-> NoFetch,
          result |-> Pending]

\* the version whose worker receives the fetch events of the pages: the old one
\* until the new one starts activating, the new one once it is activated,
\* which it is when the promise given to activate's waitUntil has settled
Controller ==
    IF pcActivate = "idle" THEN {OLD_VERSION}
    ELSE IF pcActivate \in {"done", "rejected"} THEN {CACHE_VERSION}
    ELSE {}

FetchEvent(v, req) ==
    /\ Len(events) < MaxEvents
    /\ v \in Controller
    /\ events' = Append(events, NewEvent(v, req))
    /\ UNCHANGED <<cacheList, cacheObjs, puts, lifecycleVars, messages>>

\* cache.put(request, networkResponse.clone()) started on a Cache object
NewPut(i, id, path, resp) == [ev |-> i, id |-> id, path |-> path, resp |-> resp]

(***************************************************************************)
(* cacheFirst (sw.js 164-184)                                              *)
(***************************************************************************)
CfMatch(i) ==
    /\ events[i].pc = "cf_match"
    /\ LET cachedResponse == StorageMatch(cacheList, cacheObjs, events[i].req.path)
       IN events' = [events EXCEPT ![i] =
             IF cachedResponse # Undefined
             THEN [@ EXCEPT !.cached = cachedResponse, !.result = cachedResponse,
                            !.pc = "done"]
             ELSE [@ EXCEPT !.net = Pending, !.pc = "cf_fetch"]]
    /\ UNCHANGED <<cacheList, cacheObjs, puts, lifecycleVars, messages>>

\* a handler without the try / catch: the rejection of fetch is the outcome
CfFetchNoCatch(i, out) ==
    /\ events[i].pc = "cf_fetch"
    /\ events' = [events EXCEPT ![i] =
          IF out = NetworkError
          THEN [@ EXCEPT !.net = out, !.result = out, !.pc = "done"]
          ELSE IF Ok(out)
          THEN [@ EXCEPT !.net = out, !.pc = "cf_open"]
          ELSE [@ EXCEPT !.net = out, !.result = out, !.pc = "done"]]
    /\ UNCHANGED <<cacheList, cacheObjs, puts, lifecycleVars, messages>>

CfFetch(i, out) ==
    /\ events[i].pc = "cf_fetch"
    /\ events' = [events EXCEPT ![i] =
          IF out = NetworkError
          THEN [@ EXCEPT !.net = out, !.result = Offline, !.pc = "done"]
          ELSE IF Ok(out)
          THEN [@ EXCEPT !.net = out, !.pc = "cf_open"]
          ELSE [@ EXCEPT !.net = out, !.result = out, !.pc = "done"]]
    /\ UNCHANGED <<cacheList, cacheObjs, puts, lifecycleVars, messages>>

\* caches.open resolves; put is started and not awaited; the response returns
CfOpen(i) ==
    /\ events[i].pc = "cf_open"
    /\ LET name == CacheNameOf(events[i].ver)
           id == OpenId(cacheList, cacheObjs, name)
       IN /\ cacheList' = OpenList(cacheList, cacheObjs, name)
          /\ cacheObjs' = OpenObjs(cacheList, cacheObjs, name)
          /\ puts' = puts \cup {NewPut(i, id, events[i].req.path, events[i].net)}
          /\ events' = [events EXCEPT ![i] =
                [@ EXCEPT !.handle = id, !.result = events[i].net, !.pc = "done"]]
    /\ UNCHANGED <<lifecycleVars, messages>>

(***************************************************************************)
(* networkFirst (sw.js 190-216)                                            *)
(***************************************************************************)
\* a handler that stores whatever response the network gave
NfFetchStoresAny(i, out) ==
    /\ events[i].pc = "nf_fetch"
    /\ events' = [events EXCEPT ![i] =
          IF out = NetworkError
          THEN [@ EXCEPT !.net = out, !.pc = "nf_match"]
          ELSE [@ EXCEPT !.net = out, !.pc = "nf_open"]]
    /\ UNCHANGED <<cacheList, cacheObjs, puts, lifecycleVars, messages>>

NfFetch(i, out) ==
    /\ events[i].pc = "nf_fetch"
    /\ events' = [events EXCEPT ![i] =
          IF out = NetworkError
          THEN [@ EXCEPT !.net = out, !.pc = "nf_match"]
          ELSE IF Ok(out)
          THEN [@ EXCEPT !.net = out, !.pc = "nf_open"]
          ELSE [@ EXCEPT !.net = out, !.result = out, !.pc = "done"]]
    /\ UNCHANGED <<cacheList, cacheObjs, puts, lifecycleVars, messages>>

\* a success branch that returns the response without storing it
NfOpenNoPut(i) ==
    /\ events[i].pc = "nf_open"
    /\ events' = [events EXCEPT ![i] =
          [@ EXCEPT !.result = events[i].net, !.pc = "done"]]
    /\ UNCHANGED <<cacheList, cacheObjs, puts, lifecycleVars, messages>>

\* a success branch that stores under the newest version's bucket name,
\* whatever the version of the worker that runs it
NfOpenNewestBucket(i) ==
    /\ events[i].pc = "nf_open"
    /\ LET name == CacheNameOf(CACHE_VERSION)
           id == OpenId(cacheList, cacheObjs, name)
       IN /\ cacheList' = OpenList(cacheList, cacheObjs, name)
          /\ cacheObjs' = OpenObjs(cacheList, cacheObjs, name)
          /\ puts' = puts \cup {NewPut(i, id, events[i].req.path, events[i].net)}
          /\ events' = [events EXCEPT ![i] =
                [@ EXCEPT !.handle = id, !.result = events[i].net, !.pc = "done"]]
    /\ UNCHANGED <<lifecycleVars, messages>>

NfOpen(i) ==
    /\ events[i].pc = "nf_open"
    /\ LET name == CacheNameOf(events[i].ver)
           id == OpenId(cacheList, cacheObjs, name)
       IN /\ cacheList' = OpenList(cacheList, cacheObjs, name)
          /\ cacheObjs' = OpenObjs(cacheList, cacheObjs, name)
          /\ puts' = puts \cup {NewPut(i, id, events[i].req.path, events[i].net)}
          /\ events' = [events EXCEPT ![i] =
                [@ EXCEPT !.handle = id, !.result = events[i].net, !.pc = "done"]]
    /\ UNCHANGED <<lifecycleVars, messages>>

\* a catch branch without the offline page for navigations
NfMatchNoFallback(i) ==
    /\ events[i].pc = "nf_match"
    /\ LET cachedResponse == StorageMatch(cacheList, cacheObjs, events[i].req.path)
       IN events' = [events EXCEPT ![i] =
             IF cachedResponse # Undefined
             THEN [@ EXCEPT !.cached = cachedResponse, !.result = cachedResponse,
                            !.pc = "done"]
             ELSE [@ EXCEPT !.result = Offline, !.pc = "done"]]
    /\ UNCHANGED <<cacheList, cacheObjs, puts, lifecycleVars, messages>>

\* the catch branch: caches.match(request) resolves
NfMatch(i) ==
    /\ events[i].pc = "nf_match"
    /\ LET cachedResponse == StorageMatch(cacheList, cacheObjs, events[i].req.path)
       IN events' = [events EXCEPT ![i] =
             IF cachedResponse # Undefined
             THEN [@ EXCEPT !.cached = cachedResponse, !.result = cachedResponse,
                            !.pc = "done"]
             ELSE IF events[i].req.mode = "navigate"
             THEN [@ EXCEPT !.pc = "nf_offline"]
             ELSE [@ EXCEPT !.result = Offline, !.pc = "done"]]
    /\ UNCHANGED <<cacheList, cacheObjs, puts, lifecycleVars, messages>>

\* caches.match('/index.html') resolves
NfOffline(i) ==
    /\ events[i].pc = "nf_offline"
    /\ LET offlinePage == StorageMatch(cacheList, cacheObjs, "/index.html")
       IN events' = [events EXCEPT ![i] =
             [@ EXCEPT !.result = OrElse(offlinePage, Offline), !.pc = "done"]]
    /\ UNCHANGED <<cacheList, cacheObjs, puts, lifecycleVars, messages>>

(***************************************************************************)
(* staleWhileRevalidate (sw.js 222-241)                                    *)
(***************************************************************************)
SwrOpen(i) ==
    /\ events[i].pc = "swr_open"
    /\ LET name == CacheNameOf(events[i].ver)
       IN /\ cacheList' = OpenList(cacheList, cacheObjs, name)
          /\ cacheObjs' = OpenObjs(cacheList, cacheObjs, name)
          /\ events' = [events EXCEPT ![i] =
                [@ EXCEPT !.handle = OpenId(cacheList, cacheObjs, name),
                          !.pc = "swr_match"]]
    /\ UNCHANGED <<puts, lifecycleVars, messages>>

\* cache.match resolves; the fetch is started; the function returns
\* cachedResponse || fetchPromise
\* a return that always waits for the network: return fetchPromise
SwrReturnAwaitFetch(cachedResponse) == Pending

SwrReturn(cachedResponse) ==
    IF cachedResponse # Undefined THEN cachedResponse ELSE Pending

SwrMatch(i) ==
    /\ events[i].pc = "swr_match"
    /\ LET cachedResponse == CacheMatch(cacheObjs, events[i].handle, events[i].req.path)
       IN events' = [events EXCEPT ![i] =
             [@ EXCEPT !.cached = cachedResponse, !.net = Pending,
                       !.result = SwrReturn(cachedResponse), !.pc = "swr_fetch"]]
    /\ UNCHANGED <<cacheList, cacheObjs, puts, lifecycleVars, messages>>

\* a catch callback that synthesizes the 503 as the other strategies do
FetchPromiseValueOffline(out, cachedResponse) ==
    IF out = NetworkError THEN OrElse(cachedResponse, Offline) ELSE out

\* the value fetchPromise settles with: the then callback's networkResponse,
\* or the catch callback's cachedResponse
FetchPromiseValue(out, cachedResponse) ==
    IF out = NetworkError THEN cachedResponse ELSE out

\* a catch callback that evicts the entry it could not refresh
SwrFetchEvictsOnFailure(i, out) ==
    /\ events[i].pc = "swr_fetch"
    /\ puts' = IF Ok(out)
               THEN puts \cup {NewPut(i, events[i].handle, events[i].req.path, out)}
               ELSE puts
    /\ events' = [events EXCEPT ![i] =
          [@ EXCEPT !.net = out,
                    !.result = IF events[i].result = Pending
                               THEN FetchPromiseValue(out, events[i].cached)
                               ELSE events[i].result,
                    !.pc = "done"]]
    /\ cacheObjs' = IF out = NetworkError
                    THEN [cacheObjs EXCEPT ![events[i].handle] =
                            [u \in DOMAIN @ \ {events[i].req.path} |-> @[u]]]
                    ELSE cacheObjs
    /\ UNCHANGED <<cacheList, lifecycleVars, messages>>

\* the fetch settles: the then / catch callbacks of fetchPromise run
SwrFetch(i, out) ==
    /\ events[i].pc = "swr_fetch"
    /\ puts' = IF Ok(out)
               THEN puts \cup {NewPut(i, events[i].handle, events[i].req.path, out)}
               ELSE puts
    /\ events' = [events EXCEPT ![i] =
          [@ EXCEPT !.net = out,
                    !.result = IF events[i].result = Pending
                               THEN FetchPromiseValue(out, events[i].cached)
                               ELSE events[i].result,
                    !.pc = "done"]]
    /\ UNCHANGED <<cacheList, cacheObjs, lifecycleVars, messages>>

\* a started cache.put completes: the entry is written (last writer wins)
\* a cache with a capacity limit: a put that adds a key evicts the others
PutCompleteEvicting(p) ==
    /\ p \in puts
    /\ cacheObjs' = [cacheObjs EXCEPT ![p.id] =
                        IF p.path \in DOMAIN @ THEN PutEntry(@, p.path, p.resp)
                        ELSE PutEntry(NoEntries, p.path, p.resp)]
    /\ puts' = puts \ {p}
    /\ UNCHANGED <<cacheList, events, lifecycleVars, messages>>

PutComplete(p) ==
    /\ p \in puts
    /\ cacheObjs' = PutObjs(cacheObjs, p.id, p.path, p.resp)
    /\ puts' = puts \ {p}
    /\ UNCHANGED <<cacheList, events, lifecycleVars, messages>>


(***************************************************************************)
(* install listener (sw.js 43-58)                                          *)
(***************************************************************************)
Precached == Response(200, "precached")

\* the network's answers to the fetches of cache.addAll, one per manifest URL:
\* all ok, or all ok but one, which is an HTTP error or a rejection
AddAllOutcomes ==
    {[k \in 1..Len(PRECACHE_ASSETS) |-> Precached]}
    \cup {[k \in 1..Len(PRECACHE_ASSETS) |-> IF k = j THEN bad ELSE Precached] :
            j \in 1..Len(PRECACHE_ASSETS),
            bad \in {Response(404, "Not Found"), NetworkError}}

\* recorded for the properties: whether some fetch of the bulk operation failed
AddAllLabel(outs) ==
    IF \E k \in 1..Len(PRECACHE_ASSETS) : ~IsResponse(outs[k]) \/ outs[k].status # 200
    THEN "failed" ELSE "ok"

\* cache.addAll resolves only if every fetch resolved with an ok response
AddAllSucceeds(outs) == \A k \in 1..Len(PRECACHE_ASSETS) : Ok(outs[k])

\* the entries after a successful cache.addAll: every manifest URL is put
AddAllEntries(entries, outs) ==
    [u \in DOMAIN entries \cup {PRECACHE_ASSETS[k] : k \in 1..Len(PRECACHE_ASSETS)} |->
        IF \E k \in 1..Len(PRECACHE_ASSETS) : PRECACHE_ASSETS[k] = u
        THEN outs[CHOOSE k \in 1..Len(PRECACHE_ASSETS) : PRECACHE_ASSETS[k] = u]
        ELSE entries[u]]

\* the install event is dispatched and caches.open(CACHE_NAME) resolves;
\* cache.addAll(PRECACHE_ASSETS) is called
InstallOpen ==
    /\ pcInstall = "idle"
    /\ cacheList' = OpenList(cacheList, cacheObjs, CACHE_NAME)
    /\ cacheObjs' = OpenObjs(cacheList, cacheObjs, CACHE_NAME)
    /\ installHandle' = OpenId(cacheList, cacheObjs, CACHE_NAME)
    /\ pcInstall' = "addAll"
    /\ UNCHANGED <<messages, events, puts, installSignal, precache, skipWaiting, pcActivate,
                   toDelete, claimed>>

\* a bulk operation that puts each response as it arrives, like a loop of
\* cache.add, and so keeps what it fetched before the failure
InstallAddAllPartial(outs) ==
    /\ pcInstall = "addAll"
    /\ cacheObjs' = [cacheObjs EXCEPT ![installHandle] =
          [u \in DOMAIN @ \cup {PRECACHE_ASSETS[k] : k \in {j \in 1..Len(PRECACHE_ASSETS) : Ok(outs[j])}} |->
              IF \E k \in 1..Len(PRECACHE_ASSETS) : PRECACHE_ASSETS[k] = u /\ Ok(outs[k])
              THEN Precached ELSE @[u]]]
    /\ precache' = AddAllLabel(outs)
    /\ pcInstall' = IF AddAllSucceeds(outs) THEN "skipWaiting" ELSE "catch"
    /\ UNCHANGED <<messages, cacheList, events, puts, installHandle, installSignal, skipWaiting,
                   pcActivate, toDelete, claimed>>

\* cache.addAll settles: all entries are written, or none is
InstallAddAll(outs) ==
    /\ pcInstall = "addAll"
    /\ IF AddAllSucceeds(outs)
       THEN /\ cacheObjs' = [cacheObjs EXCEPT ![installHandle] =
                                AddAllEntries(cacheObjs[installHandle], outs)]
            /\ precache' = AddAllLabel(outs)
            /\ pcInstall' = "skipWaiting"
       ELSE /\ cacheObjs' = cacheObjs
            /\ precache' = AddAllLabel(outs)
            /\ pcInstall' = "catch"
    /\ UNCHANGED <<messages, cacheList, events, puts, installHandle, installSignal, skipWaiting,
                   pcActivate, toDelete, claimed>>

\* .then(() => self.skipWaiting()): the chain fulfils
InstallSkipWaiting ==
    /\ pcInstall = "skipWaiting"
    /\ skipWaiting' = TRUE
    /\ installSignal' = "fulfilled"
    /\ pcInstall' = "done"
    /\ UNCHANGED <<messages, cacheList, cacheObjs, events, puts, installHandle, precache,
                   pcActivate, toDelete, claimed>>

\* what the chain settles with once .catch has handled the rejection: the
\* callback logs and returns nothing, so the promise fulfils
CatchSignal == "fulfilled"

\* a catch callback that goes on to supersede the old version all the same
InstallCatchSkipWaiting ==
    /\ pcInstall = "catch"
    /\ skipWaiting' = TRUE
    /\ installSignal' = CatchSignal
    /\ pcInstall' = "done"
    /\ UNCHANGED <<messages, cacheList, cacheObjs, events, puts, installHandle,
                   precache, pcActivate, toDelete, claimed>>

\* .catch((error) => console.error(...))
InstallCatch ==
    /\ pcInstall = "catch"
    /\ installSignal' = CatchSignal
    /\ pcInstall' = "done"
    /\ UNCHANGED <<messages, cacheList, cacheObjs, events, puts, installHandle, precache,
                   skipWaiting, pcActivate, toDelete, claimed>>

(***************************************************************************)
(* activate listener (sw.js 63-85)                                         *)
(***************************************************************************)
\* a filter that forgets the application prefix
ShouldDeleteAnyOther(cacheName) == cacheName # CACHE_NAME

\* the filter of the cache names (sw.js 69-73)
ShouldDelete(cacheName) ==
    StartsWith(cacheName, AppPrefix) /\ cacheName # CACHE_NAME

\* the worker's install was reported successful and the platform starts
\* activating it
CanActivate == pcInstall = "done" /\ installSignal = "fulfilled"

\* the activate event is dispatched and caches.keys() resolves: caches.delete
\* is called for every filtered name
ActivateKeys ==
    /\ CanActivate
    /\ pcActivate = "idle"
    /\ toDelete' = {n \in Names(cacheList) : ShouldDelete(n)}
    /\ pcActivate' = "delete"
    /\ UNCHANGED <<messages, cacheList, cacheObjs, events, puts, pcInstall, installHandle,
                   installSignal, precache, skipWaiting, claimed>>

\* one caches.delete rejects (a storage failure): the bucket stays, Promise.all
\* rejects, and with it the chain, whose last then callback does not run; the
\* deletions started with it still complete
ActivateDeleteFails(n) ==
    /\ pcActivate \in {"delete", "rejected"}
    /\ n \in toDelete
    /\ toDelete' = toDelete \ {n}
    /\ pcActivate' = "rejected"
    /\ UNCHANGED <<messages, cacheList, cacheObjs, events, puts, pcInstall, installHandle,
                   installSignal, precache, skipWaiting, claimed>>

\* one caches.delete completes
ActivateDelete(n) ==
    /\ pcActivate \in {"delete", "rejected"}
    /\ n \in toDelete
    /\ cacheList' = DeleteList(cacheList, n)
    /\ toDelete' = toDelete \ {n}
    /\ UNCHANGED <<messages, cacheObjs, events, puts, pcInstall, installHandle, installSignal,
                   precache, skipWaiting, pcActivate, claimed>>

\* Promise.all resolves: self.clients.claim() is called and the chain fulfils
ActivateClaim ==
    /\ pcActivate = "delete"
    /\ toDelete = {}
    /\ claimed' = TRUE
    /\ pcActivate' = "done"
    /\ UNCHANGED <<messages, cacheList, cacheObjs, events, puts, pcInstall, installHandle,
                   installSignal, precache, skipWaiting, toDelete>>

(***************************************************************************)
(* message listener (sw.js 246-254)                                        *)
(***************************************************************************)
\* event.data: null, an object without a type field, or an object with one
NullData == [kind |-> "null", type |-> "undefined"]

ObjectData(t) == [kind |-> "object", type |-> t]

\* a message event: its data and the number of ports transferred with it
MessageEvent(d, n) == [data |-> d, ports |-> n]

\* event.ports is read for GET_VERSION alone; a port also comes with one of
\* the messages the listener has no branch for
MessageEvents ==
    {MessageEvent(NullData, 0),
     MessageEvent(ObjectData("undefined"), 0),
     MessageEvent(ObjectData("PING"), 0),
     MessageEvent(ObjectData("PING"), 1),
     MessageEvent(ObjectData("SKIP_WAITING"), 0),
     MessageEvent(ObjectData("GET_VERSION"), 0),
     MessageEvent(ObjectData("GET_VERSION"), 1)}

\* event.data && event.data.type === t
HasType(msg, t) == msg.data.kind # "null" /\ msg.data.type = t

NoReply == [kind |-> "none", version |-> ""]

VersionReply(v) == [kind |-> "message", version |-> v]

\* a listener that calls skipWaiting for every message but GET_VERSION
CallsSkipWaitingUnlessGetVersion(msg) == ~HasType(msg, "GET_VERSION")

\* sw.js 247-249
CallsSkipWaiting(msg) == HasType(msg, "SKIP_WAITING")

\* event.ports[0] is undefined when no port came with the message, and the
\* call of postMessage on it throws a TypeError
Throws(msg) == HasType(msg, "GET_VERSION") /\ msg.ports = 0

\* a reply that carries the version string of the previous deployment
PostedReplyOldVersion(v, msg) ==
    IF HasType(msg, "GET_VERSION") /\ msg.ports >= 1
    THEN VersionReply(OLD_VERSION) ELSE NoReply

\* sw.js 251-253: what is posted on event.ports[0] by the worker of version v
PostedReply(v, msg) ==
    IF HasType(msg, "GET_VERSION") /\ msg.ports >= 1
    THEN VersionReply(v) ELSE NoReply

\* the workers a page can post a message to: the old one until the new one
\* is activated, the new one from its installation on
Workers ==
    IF pcActivate \in {"done", "rejected"}
    THEN {CACHE_VERSION} ELSE {OLD_VERSION, CACHE_VERSION}

\* the listener runs to its end, or to the throw, without a suspension; the
\* record keeps where the install and activate chains were at that moment
Message(v, msg) ==
    /\ Len(messages) < MaxMessages
    /\ v \in Workers
    /\ skipWaiting' = IF v = CACHE_VERSION /\ CallsSkipWaiting(msg)
                      THEN TRUE ELSE skipWaiting
    /\ messages' = Append(messages,
          [ver |-> v, msg |-> msg, skipWaiting |-> CallsSkipWaiting(msg),
           reply |-> PostedReply(v, msg), threw |-> Throws(msg),
           during |-> <<pcInstall, pcActivate>>])
    /\ UNCHANGED <<cacheList, cacheObjs, events, puts, pcInstall, installHandle,
                   installSignal, precache, pcActivate, toDelete, claimed>>

(***************************************************************************)
(* Initial state and next-state relation                                   *)
(***************************************************************************)
Stale == Response(200, "stale")

Legacy == Response(200, "legacy")

Seeded == [u \in {"/index.html", "/styles.css", "/logo.png"} |-> Stale]

LegacyEntries == [u \in {"/index.html", "/logo.png"} |-> Legacy]

Bound(name, id) == [name |-> name, id |-> id]

\* the CacheStorage the new version finds: the old version's seeded bucket,
\* alone, or after a bucket of another application of the origin and an empty
\* leftover bucket of an older version, and before an empty bucket of the new
\* version's own name
InitStores ==
    { [list |-> <<Bound(CacheNameOf(OLD_VERSION), 1)>>, objs |-> <<Seeded>>],
      [list |-> <<Bound("legacy-cache", 1), Bound(CacheNameOf("v0"), 2),
                  Bound(CacheNameOf(OLD_VERSION), 3), Bound(CACHE_NAME, 4)>>,
       objs |-> <<LegacyEntries, NoEntries, Seeded, NoEntries>>] }

Init ==
    /\ \E st \in InitStores : cacheList = st.list /\ cacheObjs = st.objs
    /\ events = << >>
    /\ puts = {}
    /\ pcInstall = "idle"
    /\ installHandle = 0
    /\ installSignal = "pending"
    /\ precache = "none"
    /\ skipWaiting = FALSE
    /\ pcActivate = "idle"
    /\ toDelete = {}
    /\ claimed = FALSE
    /\ messages = << >>

Versions == {OLD_VERSION, CACHE_VERSION}

Next ==
    \/ \E v \in Versions, req \in Requests : FetchEvent(v, req)
    \/ \E i \in 1..Len(events) : CfMatch(i)
    \/ \E i \in 1..Len(events), out \in NetOutcomes : CfFetch(i, out)
    \/ \E i \in 1..Len(events) : CfOpen(i)
    \/ \E i \in 1..Len(events), out \in NetOutcomes : NfFetch(i, out)
    \/ \E i \in 1..Len(events) : NfOpen(i)
    \/ \E i \in 1..Len(events) : NfMatch(i)
    \/ \E i \in 1..Len(events) : NfOffline(i)
    \/ \E i \in 1..Len(events) : SwrOpen(i)
    \/ \E i \in 1..Len(events) : SwrMatch(i)
    \/ \E i \in 1..Len(events), out \in NetOutcomes : SwrFetch(i, out)
    \/ \E p \in puts : PutComplete(p)
    \/ InstallOpen
    \/ \E outs \in AddAllOutcomes : InstallAddAll(outs)
    \/ InstallSkipWaiting
    \/ InstallCatch
    \/ ActivateKeys
    \/ \E n \in toDelete : ActivateDelete(n)
    \/ ActivateClaim

Spec == Init /\ [][Next]_vars


(***************************************************************************)
(* The control channel: messages arrive while the new version installs and *)
(* activates, and a deletion of the activation can fail; no request is in  *)
(* flight                                                                  *)
(***************************************************************************)
ControlNext ==
    \/ \E v \in Versions, msg \in MessageEvents : Message(v, msg)
    \/ InstallOpen
    \/ \E outs \in AddAllOutcomes : InstallAddAll(outs)
    \/ InstallSkipWaiting
    \/ InstallCatch
    \/ ActivateKeys
    \/ \E n \in toDelete : ActivateDelete(n)
    \/ \E n \in toDelete : ActivateDeleteFails(n)
    \/ ActivateClaim

SpecControl == Init /\ [][ControlNext]_vars

(***************************************************************************)
(* Classification alone: fetch events for many paths are dispatched and    *)
(* their strategy recorded; no handler runs                                *)
(***************************************************************************)
ClassifyPaths ==
    {"/", "/index.html", "/a.HTML", "/a.html/", "/styles.css", "/a.CSS",
     "/script.js", "/a.mjs", "/manifest.json", "/logo.png", "/Me.jpg",
     "/a.Jpeg", "/a.gif", "/a.webp", "/a.SVG", "/favicon.ico", "/png",
     "/a.pngx", "/a.png.js", "/a.html.png", "/f.woff", "/f.WOFF2", "/f.ttf",
     "/f.otf", "/f.Eot", "/f.woff3"}

\* the paths that are also requested as navigations
ClassifyNavPaths == {"/", "/index.html", "/a.CSS", "/script.js", "/logo.png", "/f.WOFF2"}

ClassifyRequests ==
    {Request(SelfOrigin, "GET", p, "no-cors") : p \in ClassifyPaths}
    \cup {Request(SelfOrigin, "GET", p, "navigate") : p \in ClassifyNavPaths}

ClassifyNext == \E v \in Versions, req \in ClassifyRequests : FetchEvent(v, req)

SpecClassify == Init /\ [][ClassifyNext]_vars

(***************************************************************************)
(* Image traffic alone: the pages load one image that no bucket holds at   *)
(* the start, and the network's content for it changes between two fetches *)
(***************************************************************************)
RoundTripRequests == {Request(SelfOrigin, "GET", "/Me.jpg", "no-cors")}

RoundTripOutcomes == NetOutcomes \cup {Response(200, "newer")}

RoundTripNext ==
    \/ \E v \in Versions, req \in RoundTripRequests : FetchEvent(v, req)
    \/ \E i \in 1..Len(events) : CfMatch(i)
    \/ \E i \in 1..Len(events), out \in RoundTripOutcomes : CfFetch(i, out)
    \/ \E i \in 1..Len(events) : CfOpen(i)
    \/ \E p \in puts : PutComplete(p)
    \/ InstallOpen
    \/ \E outs \in AddAllOutcomes : InstallAddAll(outs)
    \/ InstallSkipWaiting
    \/ InstallCatch
    \/ ActivateKeys
    \/ \E n \in toDelete : ActivateDelete(n)
    \/ ActivateClaim

SpecRoundTrip == Init /\ [][RoundTripNext]_vars

(***************************************************************************)
(* A hung network: the fetch of the first request dispatched never         *)
(* settles.  Every other promise settles and its continuation is run by    *)
(* the event loop, which is what the weak fairness conditions state        *)
(***************************************************************************)
\* a cache operation awaited by handler i resolves and the handler goes on
Resumes(i) ==
    /\ i \in 1..Len(events)
    /\ \/ CfMatch(i) \/ CfOpen(i)
       \/ NfOpen(i) \/ NfMatch(i) \/ NfOffline(i)
       \/ SwrOpen(i) \/ SwrMatch(i)

\* one connection at a time: a fetch settles only after every earlier one
FetchSettlesInOrder(i) ==
    /\ i \in 1..Len(events)
    /\ \A j \in 1..(i - 1) : events[j].pc = "passthrough" \/ Answered(events[j])
    /\ \E out \in NetOutcomes : CfFetch(i, out) \/ NfFetch(i, out) \/ SwrFetch(i, out)

\* the fetch awaited by handler i settles
FetchSettles(i) ==
    /\ i \in 1..Len(events)
    /\ \E out \in NetOutcomes : CfFetch(i, out) \/ NfFetch(i, out) \/ SwrFetch(i, out)

\* the page's requests: one intercepted request for each strategy
HungRequests ==
    {Request(SelfOrigin, "GET", "/about.html", "navigate"),
     Request(SelfOrigin, "GET", "/styles.css", "no-cors"),
     Request(SelfOrigin, "GET", "/logo.png", "no-cors")}

\* the pending step of the install chain or of the activate chain; the
\* activation starts after the install chain has ended, so one at most is
\* enabled
LifecycleStep ==
    \/ InstallOpen
    \/ \E outs \in AddAllOutcomes : InstallAddAll(outs)
    \/ InstallSkipWaiting
    \/ InstallCatch
    \/ ActivateKeys
    \/ \E n \in toDelete : ActivateDelete(n)
    \/ ActivateClaim

HungNext ==
    \/ \E v \in Versions, req \in HungRequests : FetchEvent(v, req)
    \/ \E i \in 1..MaxEvents : Resumes(i)
    \/ \E i \in 2..MaxEvents : FetchSettles(i)
    \/ \E p \in puts : PutComplete(p)
    \/ LifecycleStep

HungFairness ==
    /\ \A i \in 1..MaxEvents : WF_vars(Resumes(i))
    /\ \A i \in 2..MaxEvents : WF_vars(FetchSettles(i))
    /\ WF_vars(\E p \in puts : PutComplete(p))
    /\ WF_vars(LifecycleStep)

\* the storage that holds another application's bucket and the buckets of
\* three versions
HungInit == Init /\ Len(cacheList) = 4

SpecHung == HungInit /\ [][HungNext]_vars /\ HungFairness

(***************************************************************************)
(* Properties                                                              *)
(***************************************************************************)
EventIds == 1..Len(events)

PrefixNames == {n \in Names(cacheList) : StartsWith(n, AppPrefix)}

\* C1: every intercepted request that has been answered was answered with a
\* response object (a cached copy, the network response or the synthesized
\* 503), never with an empty or undefined result.
C1_AnsweredWithResponse ==
    \A i \in EventIds :
        (events[i].pc # "passthrough" /\ Answered(events[i]))
            => IsResponse(events[i].result)

\* C2: a request is intercepted only if it is a same-origin GET; for any other
\* request respondWith is not called, no bucket is opened, read or written by
\* the event and no fetch is started for it.
C2_PassThroughUntouched ==
    \A i \in EventIds :
        LET e == events[i]
            eligible == e.req.origin = SelfOrigin /\ e.req.method = "GET"
        IN /\ (e.pc # "passthrough") => eligible
           /\ ~eligible =>
                /\ e.pc = "passthrough"
                /\ e.result = Pending
                /\ e.net = NoFetch
                /\ e.handle = 0
                /\ e.cached = Undefined
                /\ \A p \in puts : p.ev # i

C2_Witness ==
    /\ Len(events) = 2
    /\ events[1].req.origin # SelfOrigin
    /\ events[2].req.method = "POST"
    /\ events[2].req.origin = SelfOrigin
    /\ pcActivate = "done"


\* C3: when the activation of v2 over v1 completes, exactly one bucket with the
\* application prefix exists, v2's; v1's bucket is absent.
C3_OneBucketWhenActivated ==
    [][(pcActivate # "done" /\ pcActivate' = "done")
          => PrefixNames' = {CACHE_NAME}]_vars

\* C4: precaching is all-or-nothing.  From the settling of cache.addAll until
\* the version's own request handlers start (the version is activated), a
\* bucket that was absent or empty before the install holds no entry if some
\* fetch of the bulk operation failed, and holds the fetched response of every
\* manifest URL if all succeeded.
C4_PrecacheAllOrNothing ==
    (pcInstall \in {"skipWaiting", "catch", "done"} /\ pcActivate # "done") =>
        /\ precache = "failed" => DOMAIN Bucket(CACHE_NAME) = {}
        /\ precache = "ok" =>
              \A k \in 1..Len(PRECACHE_ASSETS) :
                  /\ PRECACHE_ASSETS[k] \in DOMAIN Bucket(CACHE_NAME)
                  /\ Bucket(CACHE_NAME)[PRECACHE_ASSETS[k]] = Precached

C4_Witness ==
    /\ pcInstall = "done"
    /\ precache = "failed"
    /\ CACHE_NAME \in Names(cacheList)
    /\ DOMAIN Bucket(CACHE_NAME) = {}
    /\ pcActivate = "delete"

\* C5: if a fetch of the bulk precache fails, the install fails: the promise
\* handed to the install event's waitUntil does not fulfil, and the version
\* does not go on to activate.
C5_FailedPrecacheFailsInstall ==
    precache = "failed" => (installSignal # "fulfilled" /\ pcActivate = "idle")


\* the suffixes of a path, the empty one included
Suffixes(path) == {SubSeq(path, k, Len(path)) : k \in 1..(Len(path) + 1)}

\* the classification table of the specification, first match wins
TableStrategy(path) ==
    IF ".html" \in Suffixes(path) \/ path = "/" THEN "network-first"
    ELSE IF ".css" \in Suffixes(path) \/ ".js" \in Suffixes(path)
         THEN "stale-while-revalidate"
    ELSE IF Suffixes(ToLower(path))
                \cap {".png", ".jpg", ".jpeg", ".gif", ".webp", ".svg", ".ico"} # {}
         THEN "cache-first"
    ELSE IF Suffixes(ToLower(path)) \cap {".woff", ".woff2", ".ttf", ".otf", ".eot"} # {}
         THEN "cache-first"
    ELSE "network-first"

\* C6: the strategy of an intercepted request is the one the classification
\* table gives for its path, whatever its mode, the cache contents and the
\* requests dispatched before it, and the strategy function run for it is that
\* strategy's.
C6_StrategyIsTableOfPath ==
    \A i \in EventIds :
        events[i].pc # "passthrough" =>
            /\ events[i].strategy = TableStrategy(events[i].req.path)
            /\ events[i].pc \in
                  (CASE events[i].strategy = "cache-first"
                            -> {"cf_match", "cf_fetch", "cf_open", "done"}
                     [] events[i].strategy = "stale-while-revalidate"
                            -> {"swr_open", "swr_match", "swr_fetch", "done"}
                     [] OTHER -> {"nf_fetch", "nf_open", "nf_match", "nf_offline", "done"})

C6_Witness ==
    /\ Len(events) = 2
    /\ events[1].req.path = "/f.WOFF2"
    /\ events[1].req.mode = "navigate"
    /\ events[1].strategy = "cache-first"
    /\ events[2].req.path = "/a.CSS"
    /\ events[2].req.mode = "no-cors"
    /\ events[2].strategy = "network-first"


\* the entries held for a path by the buckets of the origin's CacheStorage
Hits(path) ==
    {cacheObjs[cacheList[k].id][path] :
        k \in {j \in 1..Len(cacheList) : path \in DOMAIN cacheObjs[cacheList[j].id]}}

\* a cache.put completes in this step: the entry is the response put
PutsLand ==
    \A p \in puts \ puts' :
        /\ p.path \in DOMAIN cacheObjs'[p.id]
        /\ cacheObjs'[p.id][p.path] = p.resp

\* C7: network-first with the network reachable and an ok response: the
\* handler answers with that network response, also when a cached copy exists,
\* and has by then started a put of it under the request URL into the bucket
\* bound to its version's name; when the put completes the entry is that
\* response.
C7_NetworkFirstFresh ==
    [][/\ \A i \in 1..Len(events') :
             (events'[i].strategy = "network-first" /\ Ok(events'[i].net)) =>
                /\ Answered(events'[i]) => events'[i].result = events'[i].net
                /\ (~Answered(events[i]) /\ Answered(events'[i])) =>
                      /\ CacheNameOf(events'[i].ver) \in Names(cacheList')
                      /\ NewPut(i, IdOf(cacheList', CacheNameOf(events'[i].ver)),
                                events'[i].req.path, events'[i].net) \in puts'
       /\ PutsLand]_vars

C7_Witness ==
    \E i \in EventIds :
        /\ events[i].ver = CACHE_VERSION
        /\ events[i].strategy = "network-first"
        /\ events[i].req.path = "/about.html"
        /\ precache = "ok"
        /\ events[i].result = Response(200, "fresh")
        /\ puts = {}
        /\ Bucket(CACHE_NAME)["/about.html"] = Response(200, "fresh")

\* C8: network-first with the network unreachable: the handler looks the
\* request up in the cache storage; an entry cached for the request URL is the
\* answer; with none cached a navigation is answered with the cached
\* '/index.html' (the 503 if that is not cached either) and any other request
\* with the synthesized 503.
C8_NetworkFirstOffline ==
    [][\A i \in EventIds :
          /\ (events[i].strategy = "network-first" /\ events'[i].net = NetworkError)
                => events'[i].pc \in {"nf_match", "nf_offline", "done"}
          /\ (events[i].pc = "nf_match" /\ events'[i].pc # "nf_match") =>
                IF Hits(events[i].req.path) # {}
                THEN events'[i].result \in Hits(events[i].req.path)
                ELSE IF events[i].req.mode = "navigate"
                THEN ~Answered(events'[i]) /\ events'[i].pc = "nf_offline"
                ELSE events'[i].result = Offline
          /\ (events[i].pc = "nf_offline" /\ events'[i].pc # "nf_offline") =>
                IF Hits("/index.html") # {}
                THEN events'[i].result \in Hits("/index.html")
                ELSE events'[i].result = Offline]_vars

C8_Witness ==
    \E i \in EventIds :
        /\ events[i].strategy = "network-first"
        /\ events[i].req.path = "/about.html"
        /\ events[i].req.mode = "navigate"
        /\ events[i].net = NetworkError
        /\ events[i].cached = Undefined
        /\ events[i].pc = "done"
        /\ events[i].result = Stale
        /\ "/about.html" \notin DOMAIN Bucket(CacheNameOf(events[i].ver))

\* C9: cache-first with nothing cached and an ok network response: the copy is
\* in the version's bucket when the response is returned to the caller (so that
\* a later request for the same URL is served from the bucket).
C9_StoredBeforeReturned ==
    [][\A i \in EventIds :
          (/\ events[i].strategy = "cache-first"
           /\ ~Answered(events[i]) /\ Answered(events'[i])
           /\ Ok(events'[i].net))
             => /\ CacheNameOf(events[i].ver) \in Names(cacheList')
                /\ events[i].req.path \in
                      DOMAIN cacheObjs'[IdOf(cacheList', CacheNameOf(events[i].ver))]
                /\ cacheObjs'[IdOf(cacheList', CacheNameOf(events[i].ver))]
                             [events[i].req.path] = events'[i].result]_vars

\* C10: stale-while-revalidate with a cached copy: when the lookup resolves the
\* fetch is started and the handler is answered with the cached copy at once,
\* the fetch still pending; the answer never changes afterwards; a put of the
\* handler exists only once its fetch has resolved with an ok response, and a
\* bucket entry changes only when a started put completes (or the install's
\* bulk put settles).
C10_StaleWhileRevalidate ==
    [][/\ \A i \in EventIds :
             /\ (events[i].pc = "swr_match" /\ events'[i].pc # "swr_match") =>
                   /\ events'[i].net = Pending
                   /\ events[i].req.path \in DOMAIN cacheObjs[events[i].handle] =>
                         events'[i].result = cacheObjs[events[i].handle][events[i].req.path]
             /\ Answered(events[i]) => events'[i].result = events[i].result
       /\ \A p \in puts' :
             events'[p.ev].strategy = "stale-while-revalidate" =>
                 Ok(events'[p.ev].net) /\ p.resp = events'[p.ev].net
       /\ \A id \in 1..Len(cacheObjs) :
             cacheObjs'[id] # cacheObjs[id] =>
                 \/ pcInstall = "addAll" /\ id = installHandle
                 \/ \E p \in puts \ puts' :
                       /\ p.id = id
                       /\ cacheObjs'[id] = PutEntry(cacheObjs[id], p.path, p.resp)]_vars

C10_Witness ==
    \E i \in EventIds :
        /\ events[i].strategy = "stale-while-revalidate"
        /\ events[i].ver = CACHE_VERSION
        /\ events[i].cached = Precached
        /\ events[i].result = Precached
        /\ events[i].net = Response(200, "fresh")
        /\ Bucket(CACHE_NAME)[events[i].req.path] = Response(200, "fresh")

\* the Cache object is bound to a bucket name of the CacheStorage
IsBound(list, id) == \E k \in 1..Len(list) : list[k].id = id

\* C11: store / lookup round trip.  When the put of an ok response R for a
\* URL that is requested cache-first completes in a bucket, the cache lookup of a cache-first request for
\* that URL gives R, and a cache-first handler whose lookup finds an entry
\* answers with it and starts no fetch; so a cache-first request that follows
\* the store, with no overwrite or deletion in between, returns R without a
\* network call.
C11_StoreLookupRoundTrip ==
    [][/\ \A p \in puts \ puts' :
             (IsBound(cacheList, p.id) /\ getCachingStrategy(p.path) = "cache-first") =>
                 StorageMatch(cacheList', cacheObjs', p.path) = p.resp
       /\ \A i \in EventIds :
             (/\ events[i].pc = "cf_match" /\ events'[i].pc # "cf_match"
              /\ StorageMatch(cacheList, cacheObjs, events[i].req.path) # Undefined)
                => /\ events'[i].result =
                          StorageMatch(cacheList, cacheObjs, events[i].req.path)
                   /\ events'[i].net = NoFetch]_vars

\* C12: activation ordering.  Control of the open pages is claimed only when
\* every deletion of a stale bucket has completed, so that when the new
\* version claims the pages, and whenever a request is dispatched to it, no
\* bucket with the application prefix exists but its own.
C12_ClaimAfterDeletions ==
    [][/\ (~claimed /\ claimed') =>
             /\ toDelete = {}
             /\ PrefixNames' \subseteq {CACHE_NAME}
       /\ (Len(events') > Len(events) /\ events'[Len(events')].ver = CACHE_VERSION) =>
             PrefixNames \subseteq {CACHE_NAME}]_vars

\* the name carries the application prefix and is not the current bucket's
StaleName(n) ==
    /\ Len(n) >= 19
    /\ SubSeq(n, 1, 19) = "devsaint-portfolio-"
    /\ n # "devsaint-portfolio-v2"

\* C13: activation deletes exactly the buckets whose name starts with
\* 'devsaint-portfolio-' and is not the current bucket's name: those are the
\* deletions it starts when it lists the names, each deletion unbinds its
\* name and nothing else, and no step of the activation changes the current
\* bucket, a bucket without the prefix, or any entry.
C13_DeletesExactlyStale ==
    [][/\ (pcActivate = "idle" /\ pcActivate' = "delete") =>
             toDelete' = {n \in Names(cacheList) : StaleName(n)}
       /\ (pcActivate = "delete" /\ lifecycleVars' # lifecycleVars) =>
             /\ Names(cacheList') = Names(cacheList) \ (toDelete \ toDelete')
             /\ toDelete' \subseteq toDelete
             /\ \A k \in 1..Len(cacheList) :
                   cacheList[k].name \in Names(cacheList') =>
                       IdOf(cacheList', cacheList[k].name) = cacheList[k].id
             /\ cacheObjs' = cacheObjs]_vars

C13_Witness ==
    /\ pcActivate = "done"
    /\ Names(cacheList) = {"legacy-cache", CACHE_NAME}
    /\ Bucket("legacy-cache") = LegacyEntries
    /\ precache = "ok"
    /\ \A k \in 1..Len(PRECACHE_ASSETS) :
          PRECACHE_ASSETS[k] \in DOMAIN Bucket(CACHE_NAME)

MessageIds == 1..Len(messages)

\* the variables of the buckets and of the lifecycle, a message aside
StorageAndLifecycle ==
    <<cacheList, cacheObjs, puts, pcInstall, installHandle, installSignal,
      precache, skipWaiting, pcActivate, toDelete, claimed>>

\* C14: a GET_VERSION message that carries a reply port is answered on the
\* port with the version string of the worker that received it, without an
\* error, in whatever state the install and the activate chains are, and
\* handling it changes no bucket and no lifecycle state.
C14_GetVersionReplies ==
    [][Len(messages') > Len(messages) =>
          LET m == messages'[Len(messages')]
          IN (m.msg.data.kind = "object" /\ m.msg.data.type = "GET_VERSION"
                 /\ m.msg.ports >= 1) =>
                /\ m.reply = [kind |-> "message", version |-> m.ver]
                /\ m.ver = CACHE_VERSION => m.reply.version = "v2"
                /\ ~m.threw
                /\ StorageAndLifecycle' = StorageAndLifecycle]_vars

\* the new version answered once while its precache was pending and once
\* while its deletions were pending
C14_Witness ==
    /\ Len(messages) = 2
    /\ \A k \in MessageIds :
          /\ messages[k].ver = CACHE_VERSION
          /\ messages[k].msg = MessageEvent(ObjectData("GET_VERSION"), 1)
          /\ messages[k].reply = VersionReply("v2")
    /\ messages[1].during = <<"addAll", "idle">>
    /\ messages[2].during = <<"done", "delete">>
    /\ toDelete # {}

\* C15: the install chain calls skipWaiting when, and only when, the bulk
\* precache has succeeded: the step that ends a successful install is the
\* call, it comes after cache.addAll has settled, no earlier step of the chain
\* calls it, and the step that ends a failed install does not call it.
C15_SkipWaitingAfterPrecache ==
    [][/\ (pcInstall # "done" /\ pcInstall' = "done") =>
             /\ precache \in {"ok", "failed"}
             /\ precache = "ok" => skipWaiting'
             /\ precache = "failed" => skipWaiting' = skipWaiting
       /\ (pcInstall' # pcInstall /\ pcInstall' # "done") =>
             skipWaiting' = skipWaiting]_vars

C15_Witness ==
    /\ pcInstall = "done"
    /\ precache = "ok"
    /\ skipWaiting
    /\ \A k \in MessageIds : ~messages[k].skipWaiting

\* the message has no data, no type, or a type other than the two handled
UnknownMessage(msg) ==
    \/ msg.data.kind = "null"
    \/ msg.data.type \notin {"SKIP_WAITING", "GET_VERSION"}

\* C16: a control message that is neither SKIP_WAITING nor GET_VERSION (no
\* data and no type included) is ignored: nothing is posted in reply,
\* skipWaiting is not called, no error is raised, and no bucket and no
\* lifecycle state changes.
C16_UnknownMessageIgnored ==
    [][Len(messages') > Len(messages) =>
          LET m == messages'[Len(messages')]
          IN UnknownMessage(m.msg) =>
                /\ m.reply.kind = "none"
                /\ ~m.skipWaiting
                /\ ~m.threw
                /\ StorageAndLifecycle' = StorageAndLifecycle]_vars

C16_Witness ==
    /\ Len(messages) = 2
    /\ messages[1].msg = MessageEvent(NullData, 0)
    /\ messages[2].msg = MessageEvent(ObjectData("PING"), 1)
    /\ messages[2].ver = CACHE_VERSION
    /\ messages[2].reply = NoReply
    /\ pcInstall = "addAll"
    /\ ~skipWaiting

\* C17: once v2's activation has completed with v2's bucket as the only one
\* with the application prefix, no step brings another bucket with the prefix
\* into existence, whatever handlers of v1 are still suspended.
C17_NoStaleBucketAfterActivation ==
    [][(pcActivate = "done" /\ PrefixNames \subseteq {CACHE_NAME})
          => PrefixNames' \subseteq {CACHE_NAME}]_vars

\* C18: stale-while-revalidate with no cached copy: the handler is not
\* answered when the lookup resolves, it waits for the fetch; when the fetch
\* resolves the answer is the network response, whatever its status; when the
\* fetch fails the answer is the absent cached value, undefined, and not a
\* synthesized response.
C18_SwrMissWaitsForNetwork ==
    [][\A i \in EventIds :
          events[i].strategy = "stale-while-revalidate" =>
             /\ (/\ events[i].pc = "swr_match" /\ events'[i].pc # "swr_match"
                 /\ events[i].req.path \notin DOMAIN cacheObjs[events[i].handle])
                   => ~Answered(events'[i]) /\ events'[i].net = Pending
             /\ (/\ events[i].pc = "swr_fetch" /\ events'[i].pc # "swr_fetch"
                 /\ ~Answered(events[i]))
                   => /\ Answered(events'[i])
                      /\ events'[i].net.kind = "Response"
                            => events'[i].result = events'[i].net
                      /\ events'[i].net.kind = "error"
                            => events'[i].result.kind = "undefined"]_vars

C18_Witness ==
    \E i \in EventIds :
        /\ events[i].strategy = "stale-while-revalidate"
        /\ events[i].pc = "done"
        /\ events[i].cached = Undefined
        /\ events[i].net = NetworkError
        /\ events[i].result = Undefined

\* the fetch of event i resolves in this step with a response that is not ok
NonOkArrives(i) ==
    /\ events[i].net = Pending
    /\ events'[i].net.kind = "Response"
    /\ ~(events'[i].net.status >= 200 /\ events'[i].net.status <= 299)

\* every put started by a handler, and every entry of every bucket, is ok
OnlyOkStored ==
    /\ \A p \in puts' : p.resp.status >= 200 /\ p.resp.status <= 299
    /\ \A id \in 1..Len(cacheObjs') :
          \A u \in DOMAIN cacheObjs'[id] :
              cacheObjs'[id][u].status >= 200 /\ cacheObjs'[id][u].status <= 299

\* C19 as stated: only ok responses are written by a request handler, and a
\* non-ok network response is returned to the caller as it is, for each of
\* the three strategies, and leaves the buckets unchanged.
C19_NonOkReturnedAsIs ==
    [][/\ OnlyOkStored
       /\ \A i \in EventIds :
             NonOkArrives(i) =>
                /\ events'[i].result = events'[i].net
                /\ cacheObjs' = cacheObjs /\ cacheList' = cacheList
                /\ puts' = puts]_vars

\* C19, amended: only ok responses are written by a request handler; a non-ok
\* network response leaves the buckets unchanged and starts no put, and it is
\* the handler's answer, as it is, wherever the answer awaits the fetch:
\* cache-first after a miss, network-first even when a cached copy exists,
\* stale-while-revalidate without a cached copy.  Stale-while-revalidate with
\* a cached copy has answered with the copy already and drops the response.
C19_OnlyOkStored ==
    [][/\ OnlyOkStored
       /\ \A i \in EventIds :
             NonOkArrives(i) =>
                /\ IF events[i].strategy = "stale-while-revalidate"
                      /\ events[i].cached.kind = "Response"
                   THEN events'[i].result = events[i].cached
                   ELSE events'[i].result = events'[i].net
                /\ cacheObjs' = cacheObjs /\ cacheList' = cacheList
                /\ puts' = puts]_vars

C19_Witness ==
    \E i \in EventIds :
        /\ events[i].strategy = "network-first"
        /\ events[i].ver = CACHE_VERSION
        /\ events[i].req.path = "/about.html"
        /\ events[i].net = Response(404, "Not Found")
        /\ events[i].result = Response(404, "Not Found")
        /\ events[i].pc = "done"
        /\ "/about.html" \in DOMAIN Bucket(CACHE_NAME)
        /\ Bucket(CACHE_NAME)["/about.html"] = Precached
        /\ puts = {}

\* the synthesized response: status 503, body 'Offline'
Is503(r) == r.kind = "Response" /\ r.status = 503 /\ r.body = "Offline"

\* C20: cacheFirst and networkFirst settle with a response, never with an
\* error or an empty value, and the response is the synthesized 503 exactly
\* when the fetch failed and the handler's lookups found nothing: the lookup
\* of the URL (before the fetch for cacheFirst, after it for networkFirst)
\* and, for a navigation under networkFirst, the lookup of '/index.html'.
\* A lookup finds nothing exactly when no bucket holds the URL at that moment.
C20_AlwaysAResponse ==
    [][\A i \in EventIds :
          events[i].strategy \in {"cache-first", "network-first"} =>
             /\ (events[i].pc \in {"cf_match", "nf_match"} /\ events'[i].pc # events[i].pc)
                   => (events'[i].cached.kind = "undefined"
                          <=> Hits(events[i].req.path) = {})
             /\ (~Answered(events[i]) /\ Answered(events'[i]))
                   => /\ events'[i].result.kind = "Response"
                      /\ Is503(events'[i].result) <=>
                            /\ events'[i].net.kind = "error"
                            /\ events'[i].cached.kind = "undefined"
                            /\ (events[i].strategy = "network-first"
                                   /\ events[i].req.mode = "navigate")
                                  => Hits("/index.html") = {}]_vars

C20_Witness ==
    /\ Len(events) = 2
    /\ events[1].strategy = "network-first"
    /\ events[1].req.mode = "navigate"
    /\ events[1].net = NetworkError
    /\ events[1].result = Offline
    /\ events[2].strategy = "cache-first"
    /\ events[2].net = NetworkError
    /\ events[2].result = Offline

\* event i is answered in this step by a cache lookup of the path
ServedFromCache(i, path) ==
    /\ ~Answered(events[i]) /\ Answered(events'[i])
    /\ \/ events[i].pc \in {"cf_match", "nf_match", "swr_match"}
             /\ path = events[i].req.path
       \/ events[i].pc = "nf_offline" /\ path = "/index.html"
             /\ events'[i].result # [kind |-> "Response", status |-> 503, body |-> "Offline"]

\* C21: a response served from cache comes from the bucket of the version
\* that serves it: when the cache-first lookup, the network-first fallback
\* lookup, the '/index.html' fallback or the stale-while-revalidate lookup
\* answers a request, the answer is the entry that bucket holds for the URL
\* looked up.
C21_ServedFromOwnBucket ==
    [][\A i \in EventIds :
          \A path \in {events[i].req.path, "/index.html"} :
             ServedFromCache(i, path) =>
                /\ path \in DOMAIN Bucket(CacheNameOf(events[i].ver))
                /\ events'[i].result = Bucket(CacheNameOf(events[i].ver))[path]]_vars

\* C22: a deletion that fails during activation is not fatal: the activation
\* still completes, that is, once the activate chain has settled, whether or
\* not a deletion failed, control of the open pages has been claimed.
C22_DeleteFailureNonFatal ==
    pcActivate \notin {"idle", "delete"} => claimed

\* C23: stale-while-revalidate with a cached copy whose background fetch
\* fails: the step at which the fetch fails changes no bucket and starts no
\* put, and the caller's answer, given before, stays the cached copy, a
\* response and not an error.
C23_BackgroundFailureSwallowed ==
    [][\A i \in EventIds :
          (/\ events[i].strategy = "stale-while-revalidate"
           /\ events[i].cached.kind = "Response"
           /\ events[i].net = Pending
           /\ events'[i].net.kind = "error")
             => /\ events[i].result = events[i].cached
                /\ events'[i].result = events[i].cached
                /\ events'[i].pc = "done"
                /\ cacheObjs' = cacheObjs
                /\ cacheList' = cacheList
                /\ puts' = puts]_vars

C23_Witness ==
    \E i \in EventIds :
        /\ events[i].strategy = "stale-while-revalidate"
        /\ events[i].ver = OLD_VERSION
        /\ events[i].cached = Stale
        /\ events[i].net = NetworkError
        /\ events[i].result = Stale
        /\ events[i].pc = "done"
        /\ events[i].req.path \in DOMAIN cacheObjs[events[i].handle]
        /\ cacheObjs[events[i].handle][events[i].req.path] = Stale

\* the step is one of a request handler or of a put a handler started
HandlerStep == events' # events \/ puts' # puts

\* C24: request handling has no side effect outside the handler's own
\* bucket.  A step of a request handler of version v, or of a put it started,
\* changes no lifecycle state (no skipWaiting, no claim, no install or
\* activate progress) and no version, unbinds no bucket name and rebinds
\* none, binds at most the name of v's bucket, opens only the Cache object
\* bound to that name, and writes only through a put into the object the
\* handler opened, which is bound to no other name.
C24_HandlerFrame ==
    [][HandlerStep =>
          /\ lifecycleVars' = lifecycleVars
          /\ messages' = messages
          /\ \A k \in 1..Len(cacheList) :
                /\ cacheList[k].name \in Names(cacheList')
                /\ IdOf(cacheList', cacheList[k].name) = cacheList[k].id
          /\ \A n \in Names(cacheList') \ Names(cacheList) :
                \E i \in EventIds :
                    /\ events'[i] # events[i]
                    /\ n = AppPrefix \o events[i].ver
          /\ \A i \in EventIds :
                /\ events'[i].ver = events[i].ver
                /\ events'[i].handle # events[i].handle =>
                      /\ (AppPrefix \o events[i].ver) \in Names(cacheList')
                      /\ events'[i].handle =
                            IdOf(cacheList', AppPrefix \o events[i].ver)
          /\ \A p \in puts' \ puts : p.id = events'[p.ev].handle
          /\ \A id \in 1..Len(cacheObjs) :
                cacheObjs'[id] # cacheObjs[id] =>
                    \E p \in puts \ puts' :
                        /\ p.id = id
                        /\ p.id = events[p.ev].handle
                        /\ \A k \in 1..Len(cacheList) :
                              cacheList[k].id = id =>
                                  cacheList[k].name = AppPrefix \o events[p.ev].ver]_vars

C24_Witness ==
    /\ Len(events) = 2
    /\ events[1].ver = OLD_VERSION
    /\ events[2].ver = CACHE_VERSION
    /\ \A i \in EventIds :
          /\ events[i].strategy = "network-first"
          /\ events[i].net = Response(200, "fresh")
          /\ events[i].handle # 0
          /\ events[i].req.path \in DOMAIN cacheObjs[events[i].handle]
          /\ cacheObjs[events[i].handle][events[i].req.path] = Response(200, "fresh")
    /\ puts = {}
    /\ events[1].handle # events[2].handle

\* C25: a fetch that never settles stalls its own request alone.  While the
\* first request's fetch hangs for ever, every other intercepted request is
\* eventually answered, the install chain ends, and the activation of an
\* installed version ends with the claim of the pages; a message to a live
\* worker is handled in whatever state the request handlers are.
C25_HungFetchStallsOnlyItself ==
    /\ \A i \in 2..MaxEvents :
          [](Len(events) >= i => <>(Len(events) >= i /\ Answered(events[i])))
    /\ <>(pcInstall = "done")
    /\ [](CanActivate => <>(pcActivate = "done" /\ claimed))
    /\ [](Len(messages) < MaxMessages =>
             \A v \in Workers, msg \in MessageEvents : ENABLED Message(v, msg))

C25_Witness ==
    /\ Len(events) = 2
    /\ events[1].pc = "nf_fetch"
    /\ events[1].ver = OLD_VERSION
    /\ ~Answered(events[1])
    /\ events[2].ver = CACHE_VERSION
    /\ events[2].strategy = "network-first"
    /\ events[2].result = Response(200, "fresh")
    /\ pcActivate = "done"
    /\ puts = {}

\* C26: no entry is evicted or expired one by one.  In every step each Cache
\* object keeps all of its keys, an entry that changes becomes an ok response
\* (a successful re-fetch), and a bound name either stays bound to the same
\* object or is a name other than the installing version's that the
\* activation deletes whole.
C26_EntriesNeverEvicted ==
    [][/\ cacheObjs' # cacheObjs =>
             \A id \in DOMAIN cacheObjs :
                /\ id \in DOMAIN cacheObjs'
                /\ DOMAIN cacheObjs[id] \subseteq DOMAIN cacheObjs'[id]
                /\ \A u \in DOMAIN cacheObjs[id] :
                      cacheObjs'[id][u] # cacheObjs[id][u] => Ok(cacheObjs'[id][u])
       /\ cacheList' # cacheList =>
             \A k \in 1..Len(cacheList) :
             \/ /\ cacheList[k].name \in Names(cacheList')
                /\ IdOf(cacheList', cacheList[k].name) = cacheList[k].id
             \/ /\ cacheList[k].name \notin Names(cacheList')
                /\ pcActivate = "delete"
                /\ cacheList[k].name \in toDelete
                /\ cacheList[k].name # CACHE_NAME
                /\ toDelete' = toDelete \ {cacheList[k].name}]_vars

\* the old version's bucket gained a key and had an entry overwritten while
\* keeping the rest, and then went whole in the new version's activation
C26_Witness ==
    /\ pcActivate = "done"
    /\ \E id \in DOMAIN cacheObjs :
          /\ ~IsBound(cacheList, id)
          /\ DOMAIN cacheObjs[id] = DOMAIN Seeded \cup {"/about.html"}
          /\ cacheObjs[id]["/styles.css"] = Response(200, "fresh")
          /\ cacheObjs[id]["/index.html"] = Stale
          /\ cacheObjs[id]["/about.html"] = Response(200, "fresh")

\* C27: the message listener raises no error, whatever the data and the
\* reply ports of the message: no handled message has thrown.
C27_MessageNeverThrows ==
    \A k \in MessageIds : ~messages[k].threw


====
